---- MODULE Spec2Model ----
(***************************************************************************)
(* A model of the melior handle wrappers: AffineExpr (affine_expr.rs),     *)
(* AffineMap (ir/affine_map.rs) and IntegerSet (ir/type/integer_set.rs).   *)
(*                                                                         *)
(* The wrappers forward to the entry points of the wrapped library.  An    *)
(* entry point is modelled by an operator carrying the entry point's own   *)
(* name (mlirAffineMapGet, ...); what it computes is the contract the doc  *)
(* comment at its call site states, completed where the comment is silent  *)
(* by the behaviour of the wrapped library.  A wrapper method is an        *)
(* operator carrying the method's name, translated from its body.          *)
(***************************************************************************)
EXTENDS Integers, Sequences, FiniteSets, TLC

(***************************************************************************)
(* Bounds of the model.                                                    *)
(***************************************************************************)
\* Longest list handed to a list-taking operation.
MaxLen == 3
\* Largest dimension position (and largest word a stray read may yield).
MaxPos == 2
\* Number of contexts of the lifetime model.
NumContexts == 2
\* Most handles alive at once in the lifetime model.
MaxHandles == 2
\* Most chunks the print routine hands over in one rendering.
MaxChunks == 3

(***************************************************************************)
(* 64-bit signed integers (i64 in Rust, int64_t across the boundary).  TLC *)
(* integers are 32 bits wide, so a 64-bit value is its two's complement    *)
(* bit pattern as four 16-bit limbs, most significant first.               *)
(***************************************************************************)
Limbs == {0, 2^15 - 1, 2^15, 2^16 - 1}

\* The sampled 64-bit values: every combination of the edge limbs, which
\* holds i64::MIN, i64::MAX, 0, -1 and values on both sides of the
\* 32-bit range.
I64 == [1..4 -> Limbs]

I64Zero == <<0, 0, 0, 0>>
I64One == <<0, 0, 0, 1>>
I64Min == <<2^15, 0, 0, 0>>

(***************************************************************************)
(* Foreign objects.  An affine expression of the wrapped library is a      *)
(* record; only the leaves the claims need are built.                      *)
(***************************************************************************)
DimExpr(p) == [kind |-> "dim", pos |-> p, val |-> I64Zero]
ConstExpr(v) == [kind |-> "const", pos |-> 0, val |-> v]

\* The expressions the map and set operations are exercised on.
ExprPool == {DimExpr(p) : p \in 0..1} \cup {ConstExpr(I64Zero)}

\* The dimension count the maps and sets over ExprPool are built with: the
\* library requires every dimension position to lie below it.
NumDims == MaxPos + 1

\* All lists over S of length lo..hi.
ListsOf(S, lo, hi) == UNION {[1..n -> S] : n \in lo..hi}

\* The largest element of a non-empty set of integers.
MaxOf(S) == CHOOSE x \in S : \A y \in S : y <= x

(***************************************************************************)
(* State.                                                                  *)
(*   m, major, minor, obsMajor, obsMinor : a caller holding a map, the     *)
(*     sub-maps it took of it and what it read back from them.             *)
(*   pc, call, buf, flagBuf, seen, seenFlags, retMap, retSet : one call of *)
(*     a list-taking operation, step by step: the buffers the binding      *)
(*     hands over, what the foreign call read from them, and its result.   *)
(*   alive, torn, handles, lastUse : contexts and the handles created in   *)
(*     them, as the borrow checker sees them.                              *)
(*   expr, exprIn, cval, iset, isetIn, sval : an expression handle and an  *)
(*     integer-set handle, the arguments they were made from and the       *)
(*     values read back.                                                   *)
(*   ppc, via, chunks, data, fmtRet : one rendering of a map: where fmt    *)
(*     is, the trait it was entered through, the text the print routine    *)
(*     still has to hand over, the (formatter, result) pair the callback   *)
(*     works on, and fmt's result.                                         *)
(***************************************************************************)
VARIABLES m, major, minor, obsMajor, obsMinor,
          pc, call, buf, flagBuf, seen, seenFlags, retMap, retSet,
          alive, torn, handles, lastUse,
          expr, exprIn, cval, iset, isetIn, sval,
          ppc, via, chunks, data, fmtRet

mapVars == <<m, major, minor, obsMajor, obsMinor>>
callVars == <<pc, call, buf, flagBuf, seen, seenFlags, retMap, retSet>>
lifeVars == <<alive, torn, handles, lastUse>>
valueVars == <<expr, exprIn, cval, iset, isetIn, sval>>
printVars == <<ppc, via, chunks, data, fmtRet>>
vars == <<mapVars, callVars, lifeVars, valueVars, printVars>>

(***************************************************************************)
(* The wrapped library: affine maps.  A map is its dimension count, its    *)
(* symbol count and its ordered results; the null map is the library's     *)
(* "absent" marker (a null pointer).                                       *)
(***************************************************************************)
NullMap == [null |-> TRUE, dims |-> 0, syms |-> 0, results |-> <<>>]

MlirAffineMap(d, s, results) ==
    [null |-> FALSE, dims |-> d, syms |-> s, results |-> results]

\* mlirAffineMapGet reads `count` expressions from the buffer it is given;
\* `read` is what it read.
mlirAffineMapGet(d, s, count, read) ==
    MlirAffineMap(d, s, SubSeq(read, 1, count))

mlirAffineMapEmptyGet == MlirAffineMap(0, 0, <<>>)

mlirAffineMapZeroResultGet(d, s) == MlirAffineMap(d, s, <<>>)

mlirAffineMapMultiDimIdentityGet(n) ==
    MlirAffineMap(n, 0, [i \in 1..n |-> DimExpr(i - 1)])

\* The last `results` of `dims` dimensions.
mlirAffineMapMinorIdentityGet(dims, results) ==
    MlirAffineMap(dims, 0, [i \in 1..results |-> DimExpr(dims - results + i - 1)])

\* The permutation map of the `size` words read: result i is the dimension
\* at position read[i], over as many dimensions as the largest position
\* needs.
mlirAffineMapPermutationGet(size, read) ==
    MlirAffineMap(MaxOf({read[i] : i \in 1..size}) + 1, 0,
                  [i \in 1..size |-> DimExpr(read[i])])

mlirAffineMapGetNumDims(raw) == raw.dims
mlirAffineMapGetNumSymbols(raw) == raw.syms
mlirAffineMapGetNumResults(raw) == Len(raw.results)
mlirAffineMapGetResult(raw, pos) == raw.results[pos + 1]

\* Equality of the library: two null maps, or the same content.
mlirAffineMapEqual(a, b) == a = b

\* A symbol-less map whose results are each dimension exactly once.
mlirAffineMapIsPermutation(raw) ==
    /\ raw.syms = 0
    /\ Len(raw.results) = raw.dims
    /\ \A i \in 1..Len(raw.results) :
          /\ raw.results[i].kind = "dim"
          /\ raw.results[i].pos < raw.dims
    /\ \A i, j \in 1..Len(raw.results) :
          raw.results[i].pos = raw.results[j].pos => i = j

\* "Returns the null AffineMap if the numResults is equal to zero.  Returns
\* the affineMap if numResults is greater or equals to number of results of
\* the given affine map."  Otherwise the most major numResults results.
mlirAffineMapGetMajorSubMap(raw, numResults) ==
    IF numResults = 0 THEN NullMap
    ELSE IF numResults >= Len(raw.results) THEN raw
    ELSE MlirAffineMap(raw.dims, raw.syms, SubSeq(raw.results, 1, numResults))

\* The same, for the most minor numResults results.
mlirAffineMapGetMinorSubMap(raw, numResults) ==
    IF numResults = 0 THEN NullMap
    ELSE IF numResults >= Len(raw.results) THEN raw
    ELSE MlirAffineMap(raw.dims, raw.syms,
                       SubSeq(raw.results, Len(raw.results) - numResults + 1,
                              Len(raw.results)))

\* The map of the results at the `size` positions read.
mlirAffineMapGetSubMap(raw, size, read) ==
    MlirAffineMap(raw.dims, raw.syms, [i \in 1..size |-> raw.results[read[i] + 1]])

(***************************************************************************)
(* The wrapped library: affine expressions.  Every entry point below is    *)
(* called with the one context of the value models, which is left out.     *)
(***************************************************************************)
mlirAffineDimExprGet(position) == DimExpr(position)
mlirAffineDimExprGetPosition(raw) == raw.pos
mlirAffineExprIsADim(raw) == raw.kind = "dim"

\* The constant is an int64_t on both sides of the boundary.
mlirAffineConstantExprGet(constant) == ConstExpr(constant)
mlirAffineConstantExprGetValue(raw) == raw.val
mlirAffineExprIsAConstant(raw) == raw.kind = "const"

mlirAffineExprEqual(a, b) == a = b

(***************************************************************************)
(* The AffineExpr wrapper (affine_expr.rs).                                *)
(***************************************************************************)
AffineExpr_from_raw(raw) == [raw |-> raw, type |-> "AffineExpr"]

AffineExpr_to_raw(e) == e.raw

new_dimension(position) == AffineExpr_from_raw(mlirAffineDimExprGet(position))

dimension_position(e) == mlirAffineDimExprGetPosition(e.raw)

is_dimension(e) == mlirAffineExprIsADim(e.raw)

\* A plausible slip: the constant narrowed to 32 bits on its way out (the
\* low two limbs, sign-extended).
new_constant_narrowed(constant) ==
    AffineExpr_from_raw(mlirAffineConstantExprGet(
        LET ext == IF constant[3] >= 2^15 THEN 2^16 - 1 ELSE 0
        IN  <<ext, ext, constant[3], constant[4]>>))

new_constant(constant) ==
    AffineExpr_from_raw(mlirAffineConstantExprGet(constant))

is_constant(e) == mlirAffineExprIsAConstant(e.raw)

constant_value(e) == mlirAffineConstantExprGetValue(e.raw)

AffineExpr_eq(a, b) == mlirAffineExprEqual(a.raw, b.raw)

\* The expression handles the map operations are exercised on.
ExprHandles == {AffineExpr_from_raw(x) : x \in ExprPool}

(***************************************************************************)
(* The AffineMap wrapper (ir/affine_map.rs).                               *)
(***************************************************************************)
\* from_raw wraps whatever raw map it is given into an AffineMap value; the
\* return type of every constructor and derivation is this struct.
AffineMap_from_raw(raw) == [raw |-> raw, type |-> "AffineMap"]

\* AffineMap::from collects the raw expressions into the local vector
\* expr_ptr, which lives to the end of the function, and hands its address
\* and the length of the list to mlirAffineMapGet.
AffineMap_from(dim_count, symbol_count, affine_exprs) ==
    LET expr_ptr == [i \in 1..Len(affine_exprs) |-> AffineExpr_to_raw(affine_exprs[i])]
    IN  AffineMap_from_raw(
            mlirAffineMapGet(dim_count, symbol_count, Len(affine_exprs), expr_ptr))

AffineMap_empty == AffineMap_from_raw(mlirAffineMapEmptyGet)

AffineMap_zero_result(dim_count, symbol_count) ==
    AffineMap_from_raw(mlirAffineMapZeroResultGet(dim_count, symbol_count))

AffineMap_from_multi_dim_identity(num_dims) ==
    AffineMap_from_raw(mlirAffineMapMultiDimIdentityGet(num_dims))

AffineMap_from_minor_identity(dims, results) ==
    AffineMap_from_raw(mlirAffineMapMinorIdentityGet(dims, results))

AffineMap_num_dimensions(h) == mlirAffineMapGetNumDims(h.raw)
AffineMap_num_symbols(h) == mlirAffineMapGetNumSymbols(h.raw)
num_results(h) == mlirAffineMapGetNumResults(h.raw)
get_result(h, pos) == AffineExpr_from_raw(mlirAffineMapGetResult(h.raw, pos))
is_permutation(h) == mlirAffineMapIsPermutation(h.raw)
AffineMap_eq(a, b) == mlirAffineMapEqual(a.raw, b.raw)

\* A plausible slip: major_sub_map forwarding to the minor entry point.
major_sub_map_minor(h, n) ==
    AffineMap_from_raw(mlirAffineMapGetMinorSubMap(h.raw, n))

major_sub_map(h, n) == AffineMap_from_raw(mlirAffineMapGetMajorSubMap(h.raw, n))

minor_sub_map(h, n) == AffineMap_from_raw(mlirAffineMapGetMinorSubMap(h.raw, n))

\* The ordered result list of a map, as a caller reads it: num_results,
\* then get_result at every position.
ResultList(h) == [i \in 1..num_results(h) |-> get_result(h, i - 1)]

\* What a caller gets from reading the results of a handle.  num_results
\* and get_result pass the raw map on unchecked; on the null map the
\* library dereferences a null pointer and the process dies.
ReadResults(h) ==
    IF h.raw.null
    THEN {[state |-> "crash", list |-> <<>>]}
    ELSE {[state |-> "ok", list |-> ResultList(h)]}

(***************************************************************************)
(* Maps and sub-maps: a caller builds a map, takes major and minor         *)
(* sub-maps of it and reads their results.                                 *)
(***************************************************************************)
NoSub == [n |-> 0, h |-> AffineMap_empty, set |-> FALSE]
NoObs == [state |-> "none", list |-> <<>>]

MapInit ==
    /\ m = AffineMap_empty
    /\ major = NoSub
    /\ minor = NoSub
    /\ obsMajor = NoObs
    /\ obsMinor = NoObs

Hold(h) ==
    /\ m' = h
    /\ major' = NoSub
    /\ minor' = NoSub
    /\ obsMajor' = NoObs
    /\ obsMinor' = NoObs
    /\ UNCHANGED <<callVars, lifeVars, valueVars, printVars>>

From ==
    \E s \in 0..1, exprs \in ListsOf(ExprHandles, 0, MaxLen) :
        Hold(AffineMap_from(NumDims, s, exprs))

ZeroResult ==
    \E d \in 0..MaxPos, s \in 0..1 : Hold(AffineMap_zero_result(d, s))

FromMultiDimIdentity ==
    \E n \in 0..MaxLen : Hold(AffineMap_from_multi_dim_identity(n))

FromMinorIdentity ==
    \E d \in 0..MaxLen : \E r \in 0..d : Hold(AffineMap_from_minor_identity(d, r))

MajorSubMap ==
    \E n \in 0..(MaxLen + 1) :
        /\ major' = [n |-> n, h |-> major_sub_map(m, n), set |-> TRUE]
        /\ obsMajor' = NoObs
        /\ UNCHANGED <<m, minor, obsMinor, callVars, lifeVars, valueVars, printVars>>

MinorSubMap ==
    \E n \in 0..(MaxLen + 1) :
        /\ minor' = [n |-> n, h |-> minor_sub_map(m, n), set |-> TRUE]
        /\ obsMinor' = NoObs
        /\ UNCHANGED <<m, major, obsMajor, callVars, lifeVars, valueVars, printVars>>

ReadMajor ==
    /\ major.set
    /\ obsMajor' \in ReadResults(major.h)
    /\ UNCHANGED <<m, major, minor, obsMinor, callVars, lifeVars, valueVars, printVars>>

ReadMinor ==
    /\ minor.set
    /\ obsMinor' \in ReadResults(minor.h)
    /\ UNCHANGED <<m, major, minor, obsMajor, callVars, lifeVars, valueVars, printVars>>

MapNext ==
    \/ From
    \/ ZeroResult
    \/ FromMultiDimIdentity
    \/ FromMinorIdentity
    \/ MajorSubMap
    \/ MinorSubMap
    \/ ReadMajor
    \/ ReadMinor

(***************************************************************************)
(* The wrapped library: integer sets.  A set is its dimension count, its   *)
(* symbol count, its constraints and one equality flag per constraint.     *)
(***************************************************************************)
MlirIntegerSet(d, s, constraints, eqFlags) ==
    [dims |-> d, syms |-> s, constraints |-> constraints, eqFlags |-> eqFlags]

\* mlirIntegerSetGet reads numConstraints expressions and numConstraints
\* flags: "Both constraints and eqFlags are expected to point to at least
\* numConstraint consecutive values."
mlirIntegerSetGet(d, s, numConstraints, readConstraints, readFlags) ==
    MlirIntegerSet(d, s, SubSeq(readConstraints, 1, numConstraints),
                   SubSeq(readFlags, 1, numConstraints))

\* "Gets or creates a new canonically empty integer set with the give number
\* of dimensions and symbols."  The sources say what the constructor is given,
\* not which constraints the canonical empty set holds: their number is left
\* open here (none, or one).
mlirIntegerSetEmptyGet(d, s) ==
    {MlirIntegerSet(d, s, c, [i \in 1..Len(c) |-> TRUE]) :
        c \in ListsOf({ConstExpr(I64One)}, 0, 1)}

mlirIntegerSetGetNumConstraints(raw) == Len(raw.constraints)
mlirIntegerSetGetNumEqualities(raw) ==
    Cardinality({i \in 1..Len(raw.eqFlags) : raw.eqFlags[i]})
mlirIntegerSetGetNumInequalities(raw) ==
    Cardinality({i \in 1..Len(raw.eqFlags) : ~raw.eqFlags[i]})
mlirIntegerSetGetNumDims(raw) == raw.dims
mlirIntegerSetGetNumSymbols(raw) == raw.syms
mlirIntegerSetGetConstraint(raw, pos) == raw.constraints[pos + 1]
mlirIntegerSetIsConstraintEq(raw, pos) == raw.eqFlags[pos + 1]

\* "Checks whether the given set is a canonical empty set, e.g., the set
\* returned by mlirIntegerSetEmptyGet."
mlirIntegerSetIsCanonicalEmpty(raw) == raw \in mlirIntegerSetEmptyGet(raw.dims, raw.syms)

(***************************************************************************)
(* The IntegerSet wrapper (ir/type/integer_set.rs).                        *)
(***************************************************************************)
IntegerSet_wrap(raw) == [raw |-> raw, type |-> "IntegerSet"]

IntegerSet_empty(num_dims, num_symbols) ==
    {IntegerSet_wrap(raw) : raw \in mlirIntegerSetEmptyGet(num_dims, num_symbols)}

IntegerSet_num_constraints(h) == mlirIntegerSetGetNumConstraints(h.raw)
IntegerSet_num_equalities(h) == mlirIntegerSetGetNumEqualities(h.raw)
IntegerSet_num_inequalities(h) == mlirIntegerSetGetNumInequalities(h.raw)
IntegerSet_num_dimensions(h) == mlirIntegerSetGetNumDims(h.raw)
IntegerSet_num_symbols(h) == mlirIntegerSetGetNumSymbols(h.raw)
IntegerSet_is_empty(h) == mlirIntegerSetIsCanonicalEmpty(h.raw)
get_constraint(h, pos) == AffineExpr_from_raw(mlirIntegerSetGetConstraint(h.raw, pos))
is_constraint_eq(h, pos) == mlirIntegerSetIsConstraintEq(h.raw, pos)

(***************************************************************************)
(* One call of a list-taking operation, step by step.                      *)
(*                                                                         *)
(* A buffer is "live" while the vector (or stack slot) that owns it is in  *)
(* scope and "freed" once that owner was dropped.  The foreign call reads  *)
(* `count` words through the address it was given: the words of a live     *)
(* buffer inside its bounds are the buffer's; any other word (past the end *)
(* of the buffer, or of a freed buffer) is whatever lies in memory there.  *)
(***************************************************************************)
NoBuffer == [data |-> <<>>, state |-> "none"]
Live(words) == [data |-> words, state |-> "live"]
Freed(b) == [data |-> b.data, state |-> "freed"]

ReadBuffer(b, count, Words) ==
    {r \in [1..count -> Words] :
        \A i \in 1..count :
            (b.state = "live" /\ i <= Len(b.data)) => r[i] = b.data[i]}

\* The map sub_map is called on: the identity over NumDims dimensions.
BaseMap == AffineMap_from_multi_dim_identity(NumDims)

NoCall == [dims |-> 0, syms |-> 0, size |-> 0, list |-> <<>>, op |-> "none",
           flag |-> FALSE]

NoSet == IntegerSet_wrap(MlirIntegerSet(0, 0, <<>>, <<>>))

CallInit ==
    /\ pc = "idle"
    /\ call = NoCall
    /\ buf = NoBuffer
    /\ flagBuf = NoBuffer
    /\ seen = <<>>
    /\ seenFlags = <<>>
    /\ retMap = AffineMap_empty
    /\ retSet = NoSet

\* Entering a call: the arguments are bound, and nothing was read or
\* returned yet.
Enter(c) ==
    /\ pc = "idle"
    /\ call' = c
    /\ seen' = <<>>
    /\ seenFlags' = <<>>
    /\ retMap' = AffineMap_empty
    /\ retSet' = NoSet
    /\ UNCHANGED <<mapVars, lifeVars, valueVars, printVars>>

\* AffineMap::from, up to the foreign call: the raw expressions are
\* collected into the local vector expr_ptr.
Begin_from ==
    \E exprs \in ListsOf(ExprHandles, 0, MaxLen) :
        /\ Enter([dims |-> NumDims, syms |-> 0, size |-> Len(exprs), list |-> exprs,
                  op |-> "from", flag |-> FALSE])
        /\ buf' = Live([i \in 1..Len(exprs) |-> AffineExpr_to_raw(exprs[i])])
        /\ flagBuf' = NoBuffer
        /\ pc' = "call"

\* AffineMap::from_permutation, `permutation.clone().as_mut_ptr()`: the
\* address is taken of a clone that no variable owns.
Begin_from_permutation ==
    \E permutation \in ListsOf(0..MaxPos, 1, MaxLen) :
        /\ Enter([dims |-> 0, syms |-> 0, size |-> Len(permutation),
                  list |-> permutation, op |-> "from_permutation", flag |-> FALSE])
        /\ buf' = Live(permutation)
        /\ flagBuf' = NoBuffer
        /\ pc' = "borrowed"

\* AffineMap::sub_map, `result_pos.clone().as_mut_ptr()`: the same.
Begin_sub_map ==
    \E result_pos \in ListsOf(0..MaxPos, 1, MaxLen) :
        /\ Enter([dims |-> 0, syms |-> 0, size |-> Len(result_pos),
                  list |-> result_pos, op |-> "sub_map", flag |-> FALSE])
        /\ buf' = Live(result_pos)
        /\ flagBuf' = NoBuffer
        /\ pc' = "borrowed"

\* The end of the `let` statement that took the address: the temporary
\* clone is dropped there, before the foreign call of the next statement.
EndOfStatement ==
    /\ pc = "borrowed"
    /\ buf' = Freed(buf)
    /\ pc' = "call"
    /\ UNCHANGED <<call, flagBuf, seen, seenFlags, retMap, retSet,
                   mapVars, lifeVars, valueVars, printVars>>

\* IntegerSet::new, up to the foreign call: the constraints stay in the
\* caller's vector, and the flags pointer is the address of the one bool
\* eq_flags.
Begin_IntegerSet_new ==
    \E constraints \in ListsOf(ExprPool, 0, MaxLen), eq_flags \in BOOLEAN :
        /\ Enter([dims |-> NumDims, syms |-> 0, size |-> Len(constraints),
                  list |-> constraints, op |-> "IntegerSet_new",
                  flag |-> eq_flags])
        /\ buf' = Live(constraints)
        /\ flagBuf' = Live(<<eq_flags>>)
        /\ pc' = "call"

\* The foreign call of the operation: it reads call.size words through
\* each address it was given and builds its result from what it read.
ForeignCall ==
    /\ pc = "call"
    /\ pc' = "returned"
    /\ \/ /\ call.op = "from"
          /\ seen' \in ReadBuffer(buf, call.size, ExprPool)
          /\ retMap' = AffineMap_from_raw(
                 mlirAffineMapGet(call.dims, call.syms, call.size, seen'))
          /\ UNCHANGED <<seenFlags, retSet>>
       \/ /\ call.op = "from_permutation"
          /\ seen' \in ReadBuffer(buf, call.size, 0..MaxPos)
          /\ retMap' = AffineMap_from_raw(
                 mlirAffineMapPermutationGet(call.size, seen'))
          /\ UNCHANGED <<seenFlags, retSet>>
       \/ /\ call.op = "sub_map"
          /\ seen' \in ReadBuffer(buf, call.size, 0..MaxPos)
          /\ retMap' = AffineMap_from_raw(
                 mlirAffineMapGetSubMap(BaseMap.raw, call.size, seen'))
          /\ UNCHANGED <<seenFlags, retSet>>
       \/ /\ call.op = "IntegerSet_new"
          /\ seen' \in ReadBuffer(buf, call.size, ExprPool)
          /\ seenFlags' \in ReadBuffer(flagBuf, call.size, BOOLEAN)
          /\ retSet' = IntegerSet_wrap(
                 mlirIntegerSetGet(call.dims, call.syms, call.size, seen', seenFlags'))
          /\ UNCHANGED retMap
    /\ UNCHANGED <<call, buf, flagBuf, mapVars, lifeVars, valueVars, printVars>>

\* The end of the function: its frame goes (the locals and the vectors it
\* was given are dropped) and the handle goes to the caller.
Return ==
    /\ pc = "returned"
    /\ pc' = "idle"
    /\ call' = NoCall
    /\ buf' = NoBuffer
    /\ flagBuf' = NoBuffer
    /\ seen' = <<>>
    /\ seenFlags' = <<>>
    /\ UNCHANGED <<retMap, retSet, mapVars, lifeVars, valueVars, printVars>>

CallNext ==
    \/ Begin_from
    \/ Begin_from_permutation
    \/ Begin_sub_map
    \/ EndOfStatement
    \/ Begin_IntegerSet_new
    \/ ForeignCall
    \/ Return

(***************************************************************************)
(* Contexts and handles, as the borrow checker sees them.                  *)
(*                                                                         *)
(* Every wrapper struct carries PhantomData<&'c Context>.  A constructor   *)
(* declared inside impl<'c> returns Self, that is a handle of lifetime 'c. *)
(* When the context parameter is `&'c Context` the handle borrows the      *)
(* context for as long as the handle is used, and the compiler rejects a   *)
(* program that tears the context down before the handle's last use.  When *)
(* the parameter is `&Context` (a lifetime of its own), 'c is chosen by    *)
(* the caller and nothing relates it to the context.                       *)
(***************************************************************************)
Contexts == 1..NumContexts

ExprConstructors == {"AffineExpr::new_dimension", "AffineExpr::new_constant"}

MapConstructors ==
    {"AffineMap::from", "AffineMap::from_constant",
     "AffineMap::from_multi_dim_identity", "AffineMap::from_minor_identity",
     "AffineMap::from_permutation", "AffineMap::empty", "AffineMap::zero_result"}

SetConstructors == {"IntegerSet::new", "IntegerSet::empty"}

\* The constructors whose context parameter is declared `&'c Context`.
BorrowsContext(ctor) == ctor \in SetConstructors

NoUse == [used |-> FALSE, live |-> TRUE]

LifeInit ==
    /\ alive = {}
    /\ torn = {}
    /\ handles = {}
    /\ lastUse = NoUse

CreateContext ==
    \E c \in Contexts :
        /\ c \notin alive \cup torn
        /\ alive' = alive \cup {c}
        /\ UNCHANGED <<torn, handles, lastUse, mapVars, callVars, valueVars, printVars>>

\* A constructor call on a live context: the caller now holds the handle.
Construct(ctors) ==
    \E ctor \in ctors, c \in alive :
        /\ Cardinality(handles) < MaxHandles
        /\ handles' = handles \cup {[ctor |-> ctor, ctx |-> c]}
        /\ UNCHANGED <<alive, torn, lastUse, mapVars, callVars, valueVars, printVars>>

Construct_AffineExpr == Construct(ExprConstructors)
Construct_AffineMap == Construct(MapConstructors)
Construct_IntegerSet == Construct(SetConstructors)

\* Any method of the handle: it passes the raw handle to the library, which
\* reads the object in the context's storage.
UseHandle ==
    \E h \in handles :
        /\ lastUse' = [used |-> TRUE, live |-> h.ctx \in alive]
        /\ UNCHANGED <<alive, torn, handles, mapVars, callVars, valueVars, printVars>>

\* The program uses the handle no further.
ForgetHandle ==
    \E h \in handles :
        /\ handles' = handles \ {h}
        /\ UNCHANGED <<alive, torn, lastUse, mapVars, callVars, valueVars, printVars>>

\* Tearing a context down.  The compiler accepts it only when no handle
\* that borrows the context is used afterwards.
DropContext ==
    \E c \in alive :
        /\ \A h \in handles : h.ctx = c => ~BorrowsContext(h.ctor)
        /\ alive' = alive \ {c}
        /\ torn' = torn \cup {c}
        /\ UNCHANGED <<handles, lastUse, mapVars, callVars, valueVars, printVars>>

LifeNext ==
    \/ CreateContext
    \/ Construct_AffineExpr
    \/ Construct_AffineMap
    \/ Construct_IntegerSet
    \/ UseHandle
    \/ ForgetHandle
    \/ DropContext

(***************************************************************************)
(* An expression handle and an integer-set handle: made from arguments,    *)
(* then read back.                                                         *)
(***************************************************************************)
NoExprIn == [kind |-> "none", pos |-> 0, val |-> I64Zero]
NoCVal == [position |-> 0, set |-> FALSE, isConst |-> FALSE,
           isDim |-> FALSE, value |-> I64Zero]
NoSetIn == [dims |-> 0, syms |-> 0, set |-> FALSE]
NoSVal == [set |-> FALSE, numConstraints |-> 0, isEmpty |-> FALSE,
           numDims |-> 0, numSyms |-> 0]

ValueInit ==
    /\ expr = new_dimension(0)
    /\ exprIn = NoExprIn
    /\ cval = NoCVal
    /\ iset = NoSet
    /\ isetIn = NoSetIn
    /\ sval = NoSVal

NewConstant ==
    \E v \in I64 :
        /\ expr' = new_constant(v)
        /\ exprIn' = [kind |-> "constant", pos |-> 0, val |-> v]
        /\ cval' = NoCVal
        /\ UNCHANGED <<iset, isetIn, sval, mapVars, callVars, lifeVars, printVars>>

NewDimension ==
    \E p \in 0..MaxPos :
        /\ expr' = new_dimension(p)
        /\ exprIn' = [kind |-> "dimension", pos |-> p, val |-> I64Zero]
        /\ cval' = NoCVal
        /\ UNCHANGED <<iset, isetIn, sval, mapVars, callVars, lifeVars, printVars>>

\* The caller asks what the expression is and reads the accessor whose
\* precondition holds.
InspectExpr ==
    /\ exprIn.kind # "none"
    /\ cval' = [position |-> IF is_dimension(expr) THEN dimension_position(expr)
                             ELSE 0,
                set |-> TRUE,
                isConst |-> is_constant(expr),
                isDim |-> is_dimension(expr),
                value |-> IF is_constant(expr) THEN constant_value(expr)
                          ELSE I64Zero]
    /\ UNCHANGED <<expr, exprIn, iset, isetIn, sval, mapVars, callVars, lifeVars, printVars>>

EmptySet ==
    \E d \in 0..MaxPos, s \in 0..MaxPos :
        /\ iset' \in IntegerSet_empty(d, s)
        /\ isetIn' = [dims |-> d, syms |-> s, set |-> TRUE]
        /\ sval' = NoSVal
        /\ UNCHANGED <<expr, exprIn, cval, mapVars, callVars, lifeVars, printVars>>

InspectSet ==
    /\ isetIn.set
    /\ sval' = [set |-> TRUE,
                numConstraints |-> IntegerSet_num_constraints(iset),
                isEmpty |-> IntegerSet_is_empty(iset),
                numDims |-> IntegerSet_num_dimensions(iset),
                numSyms |-> IntegerSet_num_symbols(iset)]
    /\ UNCHANGED <<expr, exprIn, cval, iset, isetIn, mapVars, callVars, lifeVars, printVars>>

ValueNext ==
    \/ NewConstant
    \/ NewDimension
    \/ InspectExpr
    \/ EmptySet
    \/ InspectSet

(***************************************************************************)
(* Rendering (Display and Debug for AffineMap, ir/affine_map.rs).          *)
(*                                                                         *)
(* fmt puts the formatter and a result slot, initially Ok, into the pair   *)
(* `data`, hands the foreign print routine the callback and the address of *)
(* data, and returns the slot once the routine is back.  The routine hands *)
(* its text to the callback chunk by chunk.  The formatter is modelled by  *)
(* the text its writer accepted so far.                                    *)
(***************************************************************************)
Pieces == {"(d0)", " -> "}

\* `let mut data = (formatter, Ok(()));`
Display_fmt_data(formatter) == [formatter |-> formatter, result |-> "Ok"]

\* `data.1`, the value fmt returns.
Display_fmt_result(d) == d.result

\* The sink callback is crate::utility::print_callback, whose body is not
\* part of these sources.  The call hands it the chunk and the address of
\* data, so it can reach the formatter and the result slot; what it does
\* with them is left open: the chunk reaches the formatter or not, and the
\* slot is left Ok or Err.
print_callback(chunk, d) ==
    {[formatter |-> f, result |-> r] :
        f \in {d.formatter, Append(d.formatter, chunk)}, r \in {"Ok", "Err"}}

PrintInit ==
    /\ ppc = "idle"
    /\ via = "Display"
    /\ chunks = <<>>
    /\ data = Display_fmt_data(<<>>)
    /\ fmtRet = "none"

\* Display::fmt, or Debug::fmt which only forwards to it, up to the
\* foreign call: the pair is set up, and the print routine has its text.
BeginFmt ==
    \E text \in ListsOf(Pieces, 0, MaxChunks), trait \in {"Display", "Debug"} :
        /\ ppc = "idle"
        /\ ppc' = "printing"
        /\ via' = trait
        /\ chunks' = text
        /\ data' = Display_fmt_data(<<>>)
        /\ fmtRet' = "none"
        /\ UNCHANGED <<mapVars, callVars, lifeVars, valueVars>>

\* mlirAffineMapPrint hands the next chunk to the callback.
PrintChunk ==
    /\ ppc = "printing"
    /\ chunks # <<>>
    /\ data' \in print_callback(Head(chunks), data)
    /\ chunks' = Tail(chunks)
    /\ UNCHANGED <<ppc, via, fmtRet, mapVars, callVars, lifeVars, valueVars>>

\* mlirAffineMapPrint returns once all its text was handed over.
PrintReturns ==
    /\ ppc = "printing"
    /\ chunks = <<>>
    /\ ppc' = "printed"
    /\ UNCHANGED <<via, chunks, data, fmtRet,
                   mapVars, callVars, lifeVars, valueVars>>

\* fmt returns the slot.
EndFmt ==
    /\ ppc = "printed"
    /\ ppc' = "idle"
    /\ fmtRet' = Display_fmt_result(data)
    /\ UNCHANGED <<via, chunks, data, mapVars, callVars, lifeVars, valueVars>>

PrintNext ==
    \/ BeginFmt
    \/ PrintChunk
    \/ PrintReturns
    \/ EndFmt

(***************************************************************************)
(* Specifications.  The wrapper families share no state, so each is        *)
(* checked on its own; Spec is their interleaving.                         *)
(***************************************************************************)
Init == MapInit /\ CallInit /\ LifeInit /\ ValueInit /\ PrintInit

Next == MapNext \/ CallNext \/ LifeNext \/ ValueNext \/ PrintNext

Spec == Init /\ [][Next]_vars

SpecMap == Init /\ [][MapNext]_vars

SpecCall == Init /\ [][CallNext]_vars

SpecLifetime == Init /\ [][LifeNext]_vars

SpecValue == Init /\ [][ValueNext]_vars

SpecPrint == Init /\ [][PrintNext]_vars

(***************************************************************************)
(* Properties.                                                             *)
(***************************************************************************)

\* C1 (SpecLifetime): no handle outlives the context that allocated it:
\* every handle the program still uses belongs to a context that is alive,
\* and no method was ever called on a handle of a torn-down context.
\* Fails: AffineExpr and AffineMap constructors take `&Context`, so their
\* handles do not borrow the context and survive its teardown.
C1_NoHandleOutlivesContext ==
    /\ \A h \in handles : h.ctx \in alive
    /\ lastUse.used => lastUse.live

\* C2 (SpecCall): in AffineMap::from, from_permutation and sub_map the
\* buffer whose address the foreign call is given is allocated when the call
\* is made and until it has returned.
\* Fails: from_permutation and sub_map take the address of a temporary
\* clone that is dropped before the call.
C2_BufferLiveAcrossForeignCall ==
    (call.op \in {"from", "from_permutation", "sub_map"} /\ pc \in {"call", "returned"})
        => buf.state = "live"

\* C3 (SpecCall): in IntegerSet::new with k constraints, the constraint
\* buffer and the flag buffer handed to the foreign constructor with the
\* count k each hold at least k readable values.
\* Fails: the flag buffer is the one bool eq_flags, whatever k is.
C3_FlagBufferHoldsCount ==
    (call.op = "IntegerSet_new" /\ pc \in {"call", "returned"})
        => /\ buf.state = "live"
           /\ Len(buf.data) >= call.size
           /\ flagBuf.state = "live"
           /\ Len(flagBuf.data) >= call.size

\* C4 (SpecMap): a null result of major_sub_map or minor_sub_map reaches the
\* caller as something other than an ordinary AffineMap, and no operation
\* is run unchecked on a null map.
\* Fails: from_raw wraps the null map into an AffineMap like any other, and
\* num_results on it kills the process.
C4_NullResultDistinguishable ==
    /\ \A sub \in {major, minor} :
          (sub.set /\ sub.h.raw.null) => sub.h.type # "AffineMap"
    /\ obsMajor.state # "crash"
    /\ obsMinor.state # "crash"

\* The results m's sub-map of n results has to have.
MajorResults(n) == SubSeq(ResultList(m), 1, n)
MinorResults(n) == SubSeq(ResultList(m), num_results(m) - n + 1, num_results(m))

\* A sub-map for 0 < n < num_results: exactly the n expected results, over
\* the dimensions and symbols of m.
ProperSubMap(sub, expected) ==
    (0 < sub.n /\ sub.n < num_results(m))
        => /\ ~sub.h.raw.null
           /\ num_results(sub.h) = sub.n
           /\ ResultList(sub.h) = expected
           /\ AffineMap_num_dimensions(sub.h) = AffineMap_num_dimensions(m)
           /\ AffineMap_num_symbols(sub.h) = AffineMap_num_symbols(m)

\* C5 as claimed (SpecMap): n = 0 yields the null map, every
\* n >= num_results yields a map equal to m, and 0 < n < num_results yields
\* the first (major) or last (minor) n results.
\* Fails for a map of no results and n = 0: the result is the null map,
\* which is not equal to m.
C5_SubMapDegenerateCases ==
    /\ major.set =>
          /\ major.n = 0 => major.h.raw.null
          /\ major.n >= num_results(m) => AffineMap_eq(major.h, m)
          /\ ProperSubMap(major, MajorResults(major.n))
    /\ minor.set =>
          /\ minor.n = 0 => minor.h.raw.null
          /\ minor.n >= num_results(m) => AffineMap_eq(minor.h, m)
          /\ ProperSubMap(minor, MinorResults(minor.n))

\* C5 amended (SpecMap): n = 0 yields the null map, every n >= num_results
\* with n >= 1 yields a map equal to m, and 0 < n < num_results yields the
\* first (major) or last (minor) n results.
C5_SubMapCases ==
    /\ major.set =>
          /\ major.n = 0 => major.h.raw.null
          /\ (major.n >= num_results(m) /\ major.n >= 1) => AffineMap_eq(major.h, m)
          /\ ProperSubMap(major, MajorResults(major.n))
    /\ minor.set =>
          /\ minor.n = 0 => minor.h.raw.null
          /\ (minor.n >= num_results(m) /\ minor.n >= 1) => AffineMap_eq(minor.h, m)
          /\ ProperSubMap(minor, MinorResults(minor.n))

\* C5 witness: of a map of at least two results, a proper major sub-map and
\* a minor sub-map asked for more results than the map has.
C5_Witness ==
    /\ num_results(m) >= 2
    /\ major.set /\ major.n = 1
    /\ minor.set /\ minor.n = num_results(m) + 1

\* C6 (SpecMap): for 0 <= n <= num_results, the results read from
\* major_sub_map(n) followed by those read from minor_sub_map(num_results - n)
\* are the result list of m.
\* Fails at both end points: one of the two sub-maps is the null map, and
\* reading its results kills the process.
C6_MajorThenMinorIsWhole ==
    (/\ major.set /\ minor.set
     /\ major.n + minor.n = num_results(m)
     /\ obsMajor.state # "none" /\ obsMinor.state # "none")
        => /\ obsMajor.state = "ok"
           /\ obsMinor.state = "ok"
           /\ obsMajor.list \o obsMinor.list = ResultList(m)

\* A sequence that is a bijection on [0, Len).
IsPermutation(p) ==
    /\ \A i \in 1..Len(p) : p[i] < Len(p)
    /\ \A i, j \in 1..Len(p) : p[i] = p[j] => i = j

\* C8 (SpecCall): from_permutation on a bijection p of [0, size) hands the
\* foreign constructor exactly p, and yields a map with is_permutation()
\* whose i-th result is the dimension at position p[i].
\* Fails: the constructor reads a freed buffer (C2).
C8_PermutationReachesConstructor ==
    (pc = "returned" /\ call.op = "from_permutation" /\ IsPermutation(call.list))
        => /\ seen = call.list
           /\ is_permutation(retMap)
           /\ \A i \in 1..call.size :
                 AffineExpr_eq(get_result(retMap, i - 1), new_dimension(call.list[i]))

\* C10 (SpecValue): new_constant(v) is a constant expression whose
\* constant_value() is v, for every sampled 64-bit v.
C10_ConstantRoundTrip ==
    (cval.set /\ exprIn.kind = "constant")
        => /\ cval.isConst
           /\ cval.value = exprIn.val

\* C10 witness: the constant i64::MIN was made and read back.
C10_Witness == cval.set /\ exprIn.kind = "constant" /\ exprIn.val = I64Min

\* C12 (SpecCall): IntegerSet::new applies its single eq_flags argument to
\* the whole list: for k >= 1 constraints and flag f the set has k
\* constraints, get_constraint(p) is the p-th given constraint and
\* is_constraint_eq(p) is f for every p in [0, k), so all k are equalities
\* when f is true and all k are inequalities when f is false.
\* Fails for k >= 2: the constructor reads the flags of positions 1..k-1
\* past the one bool it was given the address of (C3).
C12_SingleFlagAppliesToAll ==
    (pc = "returned" /\ call.op = "IntegerSet_new" /\ call.size >= 1)
        => /\ IntegerSet_num_constraints(retSet) = call.size
           /\ \A p \in 0..(call.size - 1) :
                 /\ AffineExpr_eq(get_constraint(retSet, p),
                                  AffineExpr_from_raw(call.list[p + 1]))
                 /\ is_constraint_eq(retSet, p) = call.flag
           /\ call.flag => IntegerSet_num_equalities(retSet) = call.size
           /\ ~call.flag => IntegerSet_num_inequalities(retSet) = call.size

====
